---- MODULE Spec2Model ----
(***************************************************************************)
(* kleio.core.wrapper: Consumer.consume reserves a trial, runs the user's  *)
(* command as a child process under a private asyncio event loop (two log  *)
(* collectors, an exit-wait and a heartbeat task) and maps the outcome to  *)
(* a trial status.                                                         *)
(*                                                                         *)
(* The main thread's position is pc; the coroutines of the event loop are  *)
(* stepped only while the loop runs (pc = "run").  The child process and   *)
(* the clock belong to the environment.                                    *)
(***************************************************************************)
EXTENDS Integers, Sequences, FiniteSets, TLC

VARIABLES
    status,      \* trial.status, the in-memory status of the trial handle
    store,       \* what trial.save() last wrote: status, buffers, heartbeat
    stdlist,     \* trial._stdout / trial._stderr, by stream
    heartbeat,   \* the trial's last heartbeat timestamp (-1: never written)
    pc,          \* position of the thread that called Consumer.consume
    outcome,     \* how consume ended: "none" while it runs
    intAt,       \* the position at which the KeyboardInterrupt arrived
    capture,     \* Consumer.capture
    dirExists,   \* os.path.isdir(working_dir)
    printed,     \* operator guidance printed so far
    echoed,      \* lines printed by log_stream, by stream
    loop,        \* the event loop of launch_process
    exec,        \* position of the execute coroutine
    result,      \* what execute returned: <<>> or <<exit code>>
    child,       \* the child process
    returncode,  \* proc.returncode: <<>> (None) or <<exit code>>
    pipe,        \* data written by the child and not yet read, by stream
    emitted,     \* every line the child wrote, by stream
    col,         \* the two log_stream tasks, by stream
    wt,          \* the proc.wait() task
    hb,          \* the update (heartbeat) task
    now,         \* the clock
    hbWake,      \* when the pending asyncio.sleep of update ends
    hbStart,     \* when update started its first sleep
    hbStamps,    \* the heartbeat timestamps update wrote
    hbFinal,     \* persists made by update's cancellation handler
    cancels,     \* calls of update_task.cancel()
    spawns,      \* child processes started by create_subprocess_exec
    terminals    \* calls of trial.complete(), trial.broken() and trial.suspend()

trialVars == <<status, store, stdlist, heartbeat>>
mainVars  == <<pc, outcome, intAt, capture, dirExists, printed>>
loopVars  == <<loop, exec, result>>
childVars == <<child, returncode, pipe, emitted>>
taskVars  == <<col, wt, echoed>>
hbVars    == <<hb, hbWake, hbStart, hbStamps, hbFinal, cancels>>
counts    == <<spawns, terminals>>
vars == <<trialVars, mainVars, loopVars, childVars, taskVars, hbVars, counts, now>>

----
\* Bounds of the model: the lines a child writes, on both streams together; the
\* last instant of the clock; the time that passes in one step of the clock.
MaxLines == 2
MaxTime == 20
TickStep == 5

\* execute(..., sleep_time=10) and update(trial, sleep_time=10)
sleep_time == 10

Streams == {"stdout", "stderr"}
Statuses == {"pending", "reserved", "running", "completed", "broken", "suspended"}
Terminal == {"completed", "broken", "suspended"}

\* Lines a child may write, as bytes without the newline: "a", "b " and a
\* byte that is not ASCII.
Lines == {<<97>>, <<98, 32>>, <<200>>}
\* Exit codes of a child: killed by a signal, success, failure.
ExitCodes == {-9, 0, 1}

NoBuffers == [s \in Streams |-> <<>>]

----
\* bytes.decode('ascii') raises UnicodeDecodeError on a byte above 127.
Decodable(data) == \A i \in 1..Len(data) : data[i] < 128

\* str.rstrip() with no argument strips trailing whitespace.
Whitespace == {9, 10, 11, 12, 13, 28, 29, 30, 31, 32}

RECURSIVE rstrip(_)
rstrip(s) ==
    IF s = <<>> THEN <<>>
    ELSE IF s[Len(s)] \in Whitespace THEN rstrip(SubSeq(s, 1, Len(s) - 1))
    ELSE s

\* The child's write of one line: the line and its newline.
Written(l) == l \o <<10>>

\* StreamReader.at_eof(): the write end is closed and the buffer is empty.
at_eof(s) == child = "exited" /\ pipe[s] = <<>>

\* trial.reserve() succeeds on a trial nobody owns and raises the store's
\* conflict otherwise.
CanReserve(s) == s = "pending"

\* trial.save(): the store takes the handle's current fields.
Saved(st, bufs, h) == [status |-> st, stdout |-> bufs["stdout"],
                       stderr |-> bufs["stderr"], heartbeat |-> h]

----
Init ==
    /\ status \in Statuses
    /\ store = [status |-> status, stdout |-> <<>>, stderr |-> <<>>, heartbeat |-> -1]
    /\ stdlist = NoBuffers
    /\ heartbeat = -1
    /\ pc = "consume"
    /\ outcome = "none"
    /\ intAt = "none"
    /\ capture \in BOOLEAN
    /\ dirExists \in BOOLEAN
    /\ printed = <<>>
    /\ echoed = NoBuffers
    /\ loop = "none"
    /\ exec = "none"
    /\ result = <<>>
    /\ child = "none"
    /\ returncode = <<>>
    /\ pipe = NoBuffers
    /\ emitted = NoBuffers
    /\ col = [s \in Streams |-> "none"]
    /\ wt = "none"
    /\ hb = "none"
    /\ now = 0
    /\ hbWake = 0
    /\ hbStart = 0
    /\ hbStamps = <<>>
    /\ hbFinal = 0
    /\ cancels = 0
    /\ spawns = 0
    /\ terminals = 0

----
\* Consumer.consume, lines 91-93: trial.reserve() succeeds.
Reserve ==
    /\ pc = "consume"
    /\ CanReserve(status)
    /\ status' = "reserved"
    /\ pc' = "save_reserved"
    /\ UNCHANGED <<counts, store, stdlist, heartbeat, outcome, intAt, capture, dirExists,
                   printed, loopVars, childVars, taskVars, hbVars, now>>

\* Line 93: trial.save() after the reservation.
SaveReserved ==
    /\ pc = "save_reserved"
    /\ store' = Saved(status, stdlist, heartbeat)
    /\ pc' = "mkdir"
    /\ UNCHANGED <<counts, status, stdlist, heartbeat, outcome, intAt, capture, dirExists,
                   printed, loopVars, childVars, taskVars, hbVars, now>>

\* ReserveConflict with the trial marked broken in the except block.
ReserveConflict_broken ==
    /\ pc = "consume"
    /\ printed' = IF status = "broken" THEN Append(printed, "RESERVE_BROKEN") ELSE printed
    /\ status' = "broken"
    /\ pc' = "done"
    /\ outcome' = "SystemExit0"
    /\ UNCHANGED <<counts, store, stdlist, heartbeat, intAt, capture, dirExists, loopVars,
                   childVars, taskVars, hbVars, now>>

\* ReserveConflict without the sys.exit(0): consume goes on after the except block.
ReserveConflict_goes_on ==
    /\ pc = "consume"
    /\ printed' = IF status = "broken" THEN Append(printed, "RESERVE_BROKEN") ELSE printed
    /\ pc' = "mkdir"
    /\ UNCHANGED <<counts, trialVars, outcome, intAt, capture, dirExists, loopVars, childVars,
                   taskVars, hbVars, now>>

\* ReserveConflict with the guidance printed whatever the status.
ReserveConflict_always_prints ==
    /\ pc = "consume"
    /\ printed' = Append(printed, "RESERVE_BROKEN")
    /\ pc' = "done"
    /\ outcome' = "SystemExit0"
    /\ UNCHANGED <<counts, trialVars, intAt, capture, dirExists, loopVars, childVars,
                   taskVars, hbVars, now>>

\* Lines 94-102: trial.reserve() raises RuntimeError (from any status: a free
\* trial may have been taken by another worker); guidance is printed for a
\* broken trial and sys.exit(0) raises SystemExit(0).
ReserveConflict ==
    /\ pc = "consume"
    /\ printed' = IF status = "broken" THEN Append(printed, "RESERVE_BROKEN") ELSE printed
    /\ pc' = "done"
    /\ outcome' = "SystemExit0"
    /\ UNCHANGED <<counts, trialVars, intAt, capture, dirExists, loopVars, childVars,
                   taskVars, hbVars, now>>

\* Lines 108-113: the working directory is created unless it exists.
Mkdir ==
    /\ pc = "mkdir"
    /\ dirExists' = TRUE
    /\ pc' = "_consume"
    /\ UNCHANGED <<counts, trialVars, outcome, intAt, capture, printed, loopVars,
                   childVars, taskVars, hbVars, now>>

\* Line 111: os.makedirs raises OSError, which nothing in consume catches.
MkdirFault ==
    /\ pc = "mkdir"
    /\ ~dirExists
    /\ pc' = "done"
    /\ outcome' = "fault"
    /\ UNCHANGED <<counts, trialVars, intAt, capture, dirExists, printed, loopVars,
                   childVars, taskVars, hbVars, now>>

\* Consumer._consume, lines 128-129: trial.running(), with no trial.save().
MarkRunning ==
    /\ pc = "_consume"
    /\ status' = "running"
    /\ pc' = "launch"
    /\ UNCHANGED <<counts, store, stdlist, heartbeat, outcome, intAt, capture, dirExists,
                   printed, loopVars, childVars, taskVars, hbVars, now>>

\* Consumer.launch_process, lines 141-158: the environment is built and a new
\* event loop is created, before the try block is entered.
NewLoop ==
    /\ pc = "launch"
    /\ loop' = "open"
    /\ pc' = "loop_made"
    /\ UNCHANGED <<counts, trialVars, outcome, intAt, capture, dirExists, printed, exec,
                   result, childVars, taskVars, hbVars, now>>

\* Lines 159-161: the try block is entered and the loop starts to run execute.
RunUntilComplete ==
    /\ pc = "loop_made"
    /\ exec' = "create"
    /\ pc' = "run"
    /\ UNCHANGED <<counts, trialVars, outcome, intAt, capture, dirExists, printed, loop,
                   result, childVars, taskVars, hbVars, now>>

----
\* execute, lines 207-213: create_subprocess_exec has started the child.
SpawnChild ==
    /\ pc = "run"
    /\ exec = "create"
    /\ child' = "alive"
    /\ exec' = "spawned"
    /\ spawns' = spawns + 1
    /\ terminals' = terminals
    /\ UNCHANGED <<trialVars, mainVars, loop, result, returncode, pipe, emitted,
                   taskVars, hbVars, now>>

\* Line 213: create_subprocess_exec raises (no such program); the exception
\* ends execute and run_until_complete raises it into launch_process.
SpawnFault ==
    /\ pc = "run"
    /\ exec = "create"
    /\ exec' = "raised"
    /\ pc' = "except_fault"
    /\ UNCHANGED <<counts, trialVars, outcome, intAt, capture, dirExists, printed, loop,
                   result, childVars, taskVars, hbVars, now>>

\* Lines 215-221: the three awaited tasks and the update task are created and
\* execute waits for the three.  The loop runs callbacks in the order they were
\* scheduled, so update runs its first step, up to asyncio.sleep, before
\* execute can be woken again.
StartTasks ==
    /\ pc = "run"
    /\ exec = "spawned"
    /\ col' = [s \in Streams |-> "reading"]
    /\ wt' = "waiting"
    /\ hb' = "sleeping"
    /\ hbStart' = now
    /\ hbWake' = now + sleep_time
    /\ exec' = "waiting"
    /\ UNCHANGED <<counts, trialVars, mainVars, loop, result, childVars, echoed, hbStamps,
                   hbFinal, cancels, now>>

\* The child writes one line to one of its output streams.  Writes are followed
\* while the loop that reads them is open.
ChildEmit(s, l) ==
    /\ child = "alive"
    /\ loop = "open"
    /\ Len(emitted["stdout"]) + Len(emitted["stderr"]) < MaxLines
    /\ pipe' = [pipe EXCEPT ![s] = Append(@, Written(l))]
    /\ emitted' = [emitted EXCEPT ![s] = Append(@, l)]
    /\ UNCHANGED <<counts, trialVars, mainVars, loopVars, child, returncode, taskVars,
                   hbVars, now>>

\* The child exits; its streams are closed.
ChildExit(rc) ==
    /\ child = "alive"
    /\ child' = "exited"
    /\ returncode' = <<rc>>
    /\ UNCHANGED <<counts, trialVars, mainVars, loopVars, pipe, emitted, taskVars, hbVars, now>>

\* log_stream with both tasks appending to the stdout list.
log_stream_shared(s) ==
    /\ pc = "run"
    /\ col[s] = "reading"
    /\ IF at_eof(s)
       THEN /\ col' = [col EXCEPT ![s] = "done"]
            /\ UNCHANGED <<pipe, stdlist, echoed>>
       ELSE /\ pipe[s] # <<>>
            /\ pipe' = [pipe EXCEPT ![s] = Tail(@)]
            /\ LET data == Head(pipe[s]) IN
               IF Decodable(data)
               THEN /\ stdlist' = [stdlist EXCEPT !["stdout"] = Append(@, rstrip(data))]
                    /\ echoed' = IF capture THEN echoed
                                 ELSE [echoed EXCEPT ![s] = Append(@, rstrip(data))]
                    /\ col' = col
               ELSE /\ col' = [col EXCEPT ![s] = "failed"]
                    /\ UNCHANGED <<stdlist, echoed>>
    /\ UNCHANGED <<counts, status, store, heartbeat, mainVars, loopVars, child, returncode,
                   emitted, wt, hbVars, now>>

\* log_stream with the test of capture inverted.
log_stream_echo_inverted(s) ==
    /\ pc = "run"
    /\ col[s] = "reading"
    /\ IF at_eof(s)
       THEN /\ col' = [col EXCEPT ![s] = "done"]
            /\ UNCHANGED <<pipe, stdlist, echoed>>
       ELSE /\ pipe[s] # <<>>
            /\ pipe' = [pipe EXCEPT ![s] = Tail(@)]
            /\ LET data == Head(pipe[s]) IN
               IF Decodable(data)
               THEN /\ stdlist' = [stdlist EXCEPT ![s] = Append(@, rstrip(data))]
                    /\ echoed' = IF ~capture THEN echoed
                                 ELSE [echoed EXCEPT ![s] = Append(@, rstrip(data))]
                    /\ col' = col
               ELSE /\ col' = [col EXCEPT ![s] = "failed"]
                    /\ UNCHANGED <<stdlist, echoed>>
    /\ UNCHANGED <<counts, status, store, heartbeat, mainVars, loopVars, child,
                   returncode, emitted, wt, hbVars, now>>

\* log_stream, lines 192-198: one readline of one stream.  A line is decoded,
\* stripped and appended, and printed unless capture is set; the decoding error
\* ends the task.  At end of stream the task is done.
log_stream(s) ==
    /\ pc = "run"
    /\ col[s] = "reading"
    /\ IF at_eof(s)
       THEN /\ col' = [col EXCEPT ![s] = "done"]
            /\ UNCHANGED <<pipe, stdlist, echoed>>
       ELSE /\ pipe[s] # <<>>
            /\ pipe' = [pipe EXCEPT ![s] = Tail(@)]
            /\ LET data == Head(pipe[s]) IN
               IF Decodable(data)
               THEN /\ stdlist' = [stdlist EXCEPT ![s] = Append(@, rstrip(data))]
                    /\ echoed' = IF capture THEN echoed
                                 ELSE [echoed EXCEPT ![s] = Append(@, rstrip(data))]
                    /\ col' = col
               ELSE /\ col' = [col EXCEPT ![s] = "failed"]
                    /\ UNCHANGED <<stdlist, echoed>>
    /\ UNCHANGED <<counts, status, store, heartbeat, mainVars, loopVars, child, returncode,
                   emitted, wt, hbVars, now>>

\* Line 217: the proc.wait() task ends when the child has exited.
ExitWait ==
    /\ pc = "run"
    /\ wt = "waiting"
    /\ child = "exited"
    /\ wt' = "done"
    /\ UNCHANGED <<counts, trialVars, mainVars, loopVars, childVars, col, echoed, hbVars, now>>

\* Time passes.
Tick ==
    /\ pc = "run"
    /\ hb = "sleeping"
    /\ now + TickStep <= MaxTime
    /\ now' = now + TickStep
    /\ UNCHANGED <<counts, trialVars, mainVars, loopVars, childVars, taskVars, hbVars>>

\* update with the heartbeat written before the sleep is over.
update_early ==
    /\ pc = "run"
    /\ hb = "sleeping"
    /\ Len(hbStamps) < 2
    /\ heartbeat' = now
    /\ hbStamps' = Append(hbStamps, now)
    /\ store' = Saved(status, stdlist, now)
    /\ hbWake' = now + sleep_time
    /\ UNCHANGED <<counts, status, stdlist, mainVars, loopVars, childVars, taskVars, hb,
                   hbStart, hbFinal, cancels, now>>

\* update running outside the loop of launch_process (as a thread would).
update_detached ==
    /\ pc # "done"
    /\ hb = "sleeping"
    /\ now >= hbWake
    /\ heartbeat' = now
    /\ hbStamps' = Append(hbStamps, now)
    /\ store' = Saved(status, stdlist, now)
    /\ hbWake' = now + sleep_time
    /\ UNCHANGED <<counts, status, stdlist, mainVars, loopVars, childVars, taskVars, hb,
                   hbStart, hbFinal, cancels, now>>

\* update, lines 182-184: the sleep is over; the heartbeat is written and the
\* trial saved, and the next sleep starts.
update ==
    /\ pc = "run"
    /\ hb = "sleeping"
    /\ now >= hbWake
    /\ heartbeat' = now
    /\ hbStamps' = Append(hbStamps, now)
    /\ store' = Saved(status, stdlist, now)
    /\ hbWake' = now + sleep_time
    /\ UNCHANGED <<counts, status, stdlist, mainVars, loopVars, childVars, taskVars, hb,
                   hbStart, hbFinal, cancels, now>>

\* asyncio.wait that returns as soon as the child has exited.
TasksDone_first == wt = "done"

\* asyncio.wait with return_when=FIRST_COMPLETED.
TasksDone_any == wt = "done" \/ \E s \in Streams : col[s] \in {"done", "failed"}

\* asyncio.wait(tasks) at line 221 returns when the three tasks are done; a task
\* that ended with an exception is done and its exception is not raised here.
TasksDone == wt = "done" /\ \A s \in Streams : col[s] \in {"done", "failed"}

\* execute, lines 221-225: the three tasks are done; update is cancelled (the
\* CancelledError is thrown into it when it next runs) and the exit code is
\* returned.
ExecuteFinish ==
    /\ pc = "run"
    /\ exec = "waiting"
    /\ TasksDone
    /\ cancels' = cancels + 1
    /\ hb' = IF hb = "sleeping" THEN "cancelling" ELSE hb
    /\ result' = returncode
    /\ exec' = "returned"
    /\ UNCHANGED <<counts, trialVars, mainVars, loop, childVars, taskVars, hbWake, hbStart,
                   hbStamps, hbFinal, now>>

\* update, lines 185-187: CancelledError arrives in the sleep; the trial is
\* saved and the error re-raised, which ends the task as cancelled.
updateCancelled ==
    /\ pc = "run"
    /\ hb = "cancelling"
    /\ store' = Saved(status, stdlist, heartbeat)
    /\ hbFinal' = hbFinal + 1
    /\ hb' = "cancelled"
    /\ UNCHANGED <<counts, status, stdlist, heartbeat, mainVars, loopVars, childVars,
                   taskVars, hbWake, hbStart, hbStamps, cancels, now>>

\* Lines 161 and 172-175: run_until_complete returns execute's result, the loop
\* is closed and the exit code returned.  The callback that stops the loop was
\* scheduled after the cancellation's wake-up of update, so it runs after it.
LaunchReturn ==
    /\ pc = "run"
    /\ exec = "returned"
    /\ hb # "cancelling"
    /\ loop' = "closed"
    /\ pc' = "check_rc"
    /\ UNCHANGED <<counts, trialVars, outcome, intAt, capture, dirExists, printed, exec,
                   result, childVars, taskVars, hbVars, now>>

----
\* _consume that takes only a positive exit code for a failure.
_consume_positive(rc) == IF rc > 0 THEN "None" ELSE "trial"

\* Consumer._consume, lines 132-137: None for a nonzero exit code, the trial
\* otherwise.
_consume(rc) == IF rc # 0 THEN "None" ELSE "trial"

\* Lines 132-137 and 116: the branch of consume taken for the exit code.
CheckReturncode ==
    /\ pc = "check_rc"
    /\ pc' = IF result # <<>> /\ _consume(result[1]) # "None" THEN "complete" ELSE "broken"
    /\ UNCHANGED <<counts, trialVars, outcome, intAt, capture, dirExists, printed, loopVars,
                   childVars, taskVars, hbVars, now>>

\* Consumer.consume, lines 117-118: completed_trial.complete().
Complete ==
    /\ pc = "complete"
    /\ status' = "completed"
    /\ pc' = "save_completed"
    /\ terminals' = terminals + 1
    /\ spawns' = spawns
    /\ UNCHANGED <<store, stdlist, heartbeat, outcome, intAt, capture, dirExists,
                   printed, loopVars, childVars, taskVars, hbVars, now>>

\* Line 119: completed_trial.save(); consume returns.
SaveCompleted ==
    /\ pc = "save_completed"
    /\ store' = Saved(status, stdlist, heartbeat)
    /\ pc' = "done"
    /\ outcome' = "returned"
    /\ UNCHANGED <<counts, status, stdlist, heartbeat, intAt, capture, dirExists, printed,
                   loopVars, childVars, taskVars, hbVars, now>>

\* Lines 120-123: the guidance for a crashed trial is printed.
PrintBroken ==
    /\ pc = "broken"
    /\ printed' = Append(printed, "BROKEN")
    /\ pc' = "mark_broken"
    /\ UNCHANGED <<counts, trialVars, outcome, intAt, capture, dirExists, loopVars,
                   childVars, taskVars, hbVars, now>>

\* Line 124: trial.broken().
Broken ==
    /\ pc = "mark_broken"
    /\ printed' = printed
    /\ status' = "broken"
    /\ pc' = "save_broken"
    /\ terminals' = terminals + 1
    /\ spawns' = spawns
    /\ UNCHANGED <<store, stdlist, heartbeat, outcome, intAt, capture, dirExists,
                   loopVars, childVars, taskVars, hbVars, now>>

\* Line 125: trial.save(); consume returns.
SaveBroken ==
    /\ pc = "save_broken"
    /\ store' = Saved(status, stdlist, heartbeat)
    /\ pc' = "done"
    /\ outcome' = "returned"
    /\ UNCHANGED <<counts, status, stdlist, heartbeat, intAt, capture, dirExists, printed,
                   loopVars, childVars, taskVars, hbVars, now>>

----
\* Positions of consume, after the reservation, at which no handler of
\* KeyboardInterrupt is in place.
Unguarded == {"save_reserved", "mkdir", "_consume", "launch", "loop_made",
              "check_rc", "complete", "save_completed", "broken", "mark_broken",
              "save_broken"}

\* Positions inside the except BaseException block of launch_process.
InFaultHandler == {"except_fault", "save_fault", "raise_fault"}

\* A KeyboardInterrupt arrives while run_until_complete runs (line 161): the
\* loop stops where it is and the except block of line 162 is entered.
InterruptInLoop ==
    /\ pc = "run"
    /\ intAt = "none"
    /\ intAt' = "run"
    /\ pc' = "except_interrupt"
    /\ UNCHANGED <<counts, trialVars, outcome, capture, dirExists, printed, loopVars,
                   childVars, taskVars, hbVars, now>>

\* A KeyboardInterrupt arrives at another position after the reservation: it
\* leaves consume uncaught; from inside the except block of line 168 the
\* finally block still closes the loop.
InterruptOutside ==
    /\ pc \in Unguarded \cup InFaultHandler
    /\ intAt = "none"
    /\ intAt' = pc
    /\ loop' = IF pc \in InFaultHandler THEN "closed" ELSE loop
    /\ pc' = "done"
    /\ outcome' = "KeyboardInterrupt"
    /\ UNCHANGED <<counts, trialVars, capture, dirExists, printed, exec, result, childVars,
                   taskVars, hbVars, now>>

\* Lines 162-164: the guidance for an interrupted trial is printed.
PrintInterrupt ==
    /\ pc = "except_interrupt"
    /\ printed' = Append(printed, "INTERRUPT")
    /\ pc' = "mark_suspended"
    /\ UNCHANGED <<counts, trialVars, outcome, intAt, capture, dirExists, loopVars,
                   childVars, taskVars, hbVars, now>>

\* Line 165: trial.suspend().
Suspend ==
    /\ pc = "mark_suspended"
    /\ printed' = printed
    /\ status' = "suspended"
    /\ pc' = "save_suspended"
    /\ terminals' = terminals + 1
    /\ spawns' = spawns
    /\ UNCHANGED <<store, stdlist, heartbeat, outcome, intAt, capture, dirExists,
                   loopVars, childVars, taskVars, hbVars, now>>

\* The except block of line 162 without its trial.save().
SaveSuspended_skipped ==
    /\ pc = "save_suspended"
    /\ pc' = "raise_interrupt"
    /\ UNCHANGED <<counts, trialVars, outcome, intAt, capture, dirExists, printed, loopVars,
                   childVars, taskVars, hbVars, now>>

\* Line 166: trial.save().
SaveSuspended ==
    /\ pc = "save_suspended"
    /\ store' = Saved(status, stdlist, heartbeat)
    /\ pc' = "raise_interrupt"
    /\ UNCHANGED <<counts, status, stdlist, heartbeat, outcome, intAt, capture, dirExists,
                   printed, loopVars, childVars, taskVars, hbVars, now>>

\* ReraiseInterrupt with the loop.close() of the finally block missing.
ReraiseInterrupt_no_close ==
    /\ pc = "raise_interrupt"
    /\ pc' = "done"
    /\ outcome' = "KeyboardInterrupt"
    /\ UNCHANGED <<counts, trialVars, intAt, capture, dirExists, printed, loopVars,
                   childVars, taskVars, hbVars, now>>

\* Lines 167 and 172-173: the interrupt is raised again, the loop is closed on
\* the way out, and the interrupt leaves _consume and consume.
ReraiseInterrupt ==
    /\ pc = "raise_interrupt"
    /\ loop' = "closed"
    /\ pc' = "done"
    /\ outcome' = "KeyboardInterrupt"
    /\ UNCHANGED <<counts, trialVars, intAt, capture, dirExists, printed, exec, result,
                   childVars, taskVars, hbVars, now>>

\* Lines 168-169: trial.broken() for any other exception.
FaultBroken ==
    /\ pc = "except_fault"
    /\ status' = "broken"
    /\ pc' = "save_fault"
    /\ terminals' = terminals + 1
    /\ spawns' = spawns
    /\ UNCHANGED <<store, stdlist, heartbeat, outcome, intAt, capture, dirExists,
                   printed, loopVars, childVars, taskVars, hbVars, now>>

\* Line 170: trial.save().
SaveFault ==
    /\ pc = "save_fault"
    /\ store' = Saved(status, stdlist, heartbeat)
    /\ pc' = "raise_fault"
    /\ UNCHANGED <<counts, status, stdlist, heartbeat, outcome, intAt, capture, dirExists,
                   printed, loopVars, childVars, taskVars, hbVars, now>>

\* Lines 171-173: the exception is raised again and the loop closed.
ReraiseFault ==
    /\ pc = "raise_fault"
    /\ loop' = "closed"
    /\ pc' = "done"
    /\ outcome' = "fault"
    /\ UNCHANGED <<counts, trialVars, intAt, capture, dirExists, printed, exec, result,
                   childVars, taskVars, hbVars, now>>

----
Next ==
    \/ Reserve
    \/ SaveReserved
    \/ ReserveConflict
    \/ Mkdir
    \/ MkdirFault
    \/ MarkRunning
    \/ NewLoop
    \/ RunUntilComplete
    \/ SpawnChild
    \/ SpawnFault
    \/ StartTasks
    \/ \E s \in Streams, l \in Lines : ChildEmit(s, l)
    \/ \E rc \in ExitCodes : ChildExit(rc)
    \/ \E s \in Streams : log_stream(s)
    \/ ExitWait
    \/ Tick
    \/ update
    \/ ExecuteFinish
    \/ updateCancelled
    \/ LaunchReturn
    \/ CheckReturncode
    \/ Complete
    \/ SaveCompleted
    \/ PrintBroken
    \/ Broken
    \/ SaveBroken
    \/ InterruptInLoop
    \/ InterruptOutside
    \/ PrintInterrupt
    \/ Suspend
    \/ SaveSuspended
    \/ ReraiseInterrupt
    \/ FaultBroken
    \/ SaveFault
    \/ ReraiseFault

Spec == Init /\ [][Next]_vars

\* The steps of the worker itself: the thread that called consume, the callbacks
\* of its event loop and the clock.  The child's writes and exit, the interrupt
\* and the failures of makedirs and of the spawn are not among them.
WorkerStep ==
    \/ Reserve \/ SaveReserved \/ ReserveConflict \/ Mkdir \/ MarkRunning
    \/ NewLoop \/ RunUntilComplete \/ SpawnChild \/ StartTasks
    \/ \E s \in Streams : log_stream(s)
    \/ ExitWait \/ Tick \/ update \/ ExecuteFinish \/ updateCancelled
    \/ LaunchReturn \/ CheckReturncode \/ Complete \/ SaveCompleted
    \/ PrintBroken \/ Broken \/ SaveBroken
    \/ PrintInterrupt \/ Suspend \/ SaveSuspended \/ ReraiseInterrupt
    \/ FaultBroken \/ SaveFault \/ ReraiseFault

\* The worker keeps running while it has a step to take: the thread is not
\* blocked outside run_until_complete and the loop runs every ready callback.
\* Nothing is assumed of the child.
FairSpec == Spec /\ WF_vars(WorkerStep)

----
\* The reservation of this call of consume succeeded.
ReservedHere == pc # "consume" /\ outcome # "SystemExit0"

\* launch_process has returned execute's exit code to _consume.
SupervisorReturned == exec = "returned" /\ pc # "run" /\ intAt # "run"

\* The stdout collector, the stderr collector and the exit-wait have all ended.
ThreeCompleted == wt = "done" /\ \A s \in Streams : col[s] \notin {"none", "reading"}

\* The lines of a sequence with their trailing whitespace stripped.
Stripped(ls) == [i \in 1..Len(ls) |-> rstrip(ls[i])]

----
\* C1: when a consume call whose reservation succeeded has returned or raised
\* (an interrupt or a fault may come at any step after the reservation), the
\* trial's status is completed, broken or suspended, and it is the status last
\* persisted.
C1_EndsTerminalAndPersisted ==
    (pc = "done" /\ ReservedHere) =>
        (status \in Terminal /\ store.status = status)

\* C2: when the supervisor has returned an exit code and consume has ended with
\* no interrupt delivered, it has returned normally, with completed set and
\* persisted for exit code 0 and broken set and persisted for any other code.
C2_ExitCodeDecidesStatus ==
    (pc = "done" /\ result # <<>> /\ intAt = "none") =>
        /\ outcome = "returned"
        /\ status = (IF result[1] = 0 THEN "completed" ELSE "broken")
        /\ store.status = status

C2_Witness ==
    /\ pc = "done"
    /\ outcome = "returned"
    /\ result = <<-9>>
    /\ status = "broken"
    /\ store.status = "broken"

\* C3, as claimed: the step of consume on a failed reservation leaves the status
\* as it was and returns to the caller without raising.
C3_ConflictReturnsNormally ==
    [][(pc = "consume" /\ pc' = "done") =>
          (status' = status /\ store' = store /\ outcome' = "returned")]_vars

\* C3, amended: the step of consume on a failed reservation leaves the status,
\* in memory and in the store, as it was, and ends consume by SystemExit(0), not
\* by a return and not by an error.
C3_ConflictExitsZero ==
    [][(pc = "consume" /\ pc' = "done") =>
          (status' = status /\ store' = store /\ outcome' = "SystemExit0")]_vars

C3_Witness ==
    /\ pc = "done"
    /\ outcome = "SystemExit0"
    /\ status = "running"
    /\ store.status = "running"

\* C4: after a KeyboardInterrupt delivered while the supervisor runs the loop,
\* the trial is suspended and that status is persisted before the interrupt is
\* raised again out of launch_process, and consume ends by that interrupt.
C4_InterruptSuspendsAndPropagates ==
    intAt = "run" =>
        /\ pc \in {"except_interrupt", "mark_suspended", "save_suspended",
                  "raise_interrupt", "done"}
        /\ pc \in {"raise_interrupt", "done"} =>
              (status = "suspended" /\ store.status = "suspended")
        /\ pc = "done" => outcome = "KeyboardInterrupt"

C4_Witness ==
    /\ intAt = "run"
    /\ pc = "done"
    /\ outcome = "KeyboardInterrupt"
    /\ child = "alive"
    /\ store.status = "suspended"

\* C5: a failure during supervised execution other than an interrupt (the spawn
\* fails, or a log collector fails) leaves the trial broken and persisted, and
\* consume ends by that failure.
C5_FailurePropagatesAsBroken ==
    (pc = "done" /\ intAt = "none"
        /\ (exec = "raised" \/ \E s \in Streams : col[s] = "failed")) =>
        (outcome = "fault" /\ status = "broken" /\ store.status = "broken")

\* C6: whenever the store shows a terminal status written by this call, the
\* child process is no longer alive.
C6_TerminalStoredOnlyAfterChildDied ==
    (ReservedHere /\ store.status \in Terminal) => child # "alive"

\* C7: at every moment the child is alive the store shows running.
C7_StoreShowsRunningWhileChildAlive ==
    child = "alive" => store.status = "running"

\* C8, as claimed: in every execution in which the heartbeat task was started it
\* is cancelled exactly once and its handler makes its final persist.
C8_AlwaysCancelledOnce ==
    (pc = "done" /\ hb # "none") => (cancels = 1 /\ hbFinal = 1)

\* C8, amended: the cancel is issued at most once and only after the two
\* collectors and the exit-wait are done; it never surfaces as an error of the
\* supervisor; whenever the supervisor returns an exit code the task has been
\* cancelled exactly once and its handler has made its final persist before the
\* loop stopped; the handler persists only after a cancel.
C8_CancelledOnceWhenSupervisorReturns ==
    /\ cancels <= 1
    /\ cancels = 1 => (ThreeCompleted /\ exec = "returned" /\ result = returncode)
    /\ exec = "raised" => cancels = 0
    /\ SupervisorReturned => (cancels = 1 /\ hb = "cancelled" /\ hbFinal = 1)
    /\ hbFinal <= cancels

C8_Witness ==
    /\ pc = "check_rc"
    /\ cancels = 1
    /\ hb = "cancelled"
    /\ hbFinal = 1
    /\ Len(hbStamps) = 1

\* C9: the heartbeat task writes a timestamp only a full sleep interval after
\* its start or after its previous write, so the timestamps increase by at least
\* the interval; once the cancel is issued no timestamp is written any more, and
\* the cancelled task has made exactly one persist after it.
C9_HeartbeatSpacingAndFinalPersist ==
    /\ [](\A i \in 1..Len(hbStamps) :
            hbStamps[i] >= (IF i = 1 THEN hbStart ELSE hbStamps[i - 1]) + sleep_time)
    /\ [][cancels >= 1 => (hbStamps' = hbStamps /\ heartbeat' = heartbeat)]_vars
    /\ [][(hb = "cancelling" /\ hb' # hb) =>
             (hb' = "cancelled" /\ store' = Saved(status, stdlist, heartbeat))]_vars
    /\ [](hbFinal = (IF hb = "cancelled" THEN 1 ELSE 0))

C9_Witness ==
    /\ hb = "cancelled"
    /\ Len(hbStamps) = 2
    /\ hbFinal = 1
    /\ store.heartbeat = hbStamps[2]

\* C10, as claimed: when a collector has reached the end of its stream, its
\* buffer is exactly the sequence of lines the child wrote on that stream.
C10_BufferIsExactlyEmitted ==
    \A s \in Streams : col[s] = "done" => stdlist[s] = emitted[s]

\* C10, amended: each buffer holds, in emission order, the lines its collector
\* has read from its own stream, each with its trailing whitespace stripped: a
\* prefix of what the child wrote there, all of it once the collector has
\* reached the end of the stream, all but the unread lines while it reads.
C10_BufferIsStrippedPrefix ==
    \A s \in Streams :
        /\ Len(stdlist[s]) <= Len(emitted[s])
        /\ stdlist[s] = Stripped(SubSeq(emitted[s], 1, Len(stdlist[s])))
        /\ col[s] = "reading" => Len(stdlist[s]) + Len(pipe[s]) = Len(emitted[s])
        /\ col[s] = "done" => Len(stdlist[s]) = Len(emitted[s])

C10_Witness ==
    /\ \A s \in Streams : col[s] = "done"
    /\ emitted = [s \in Streams |-> IF s = "stdout" THEN <<<<98, 32>>>> ELSE <<<<97>>>>]
    /\ stdlist = [s \in Streams |-> IF s = "stdout" THEN <<<<98>>>> ELSE <<<<97>>>>]

\* C11: once the supervisor runs, the trial eventually shows a terminal status,
\* whatever the child does (runs in which a KeyboardInterrupt arrives outside
\* the try block of launch_process, the case of C1, are left aside).
C11_EventuallyTerminal ==
    [](pc = "run" => <>(store.status \in Terminal \/ intAt \notin {"none", "run"}))

\* C12: the step of consume on a failed reservation, from any status, ends the
\* call by SystemExit(0) and touches nothing: no directory, no status, no store,
\* no loop, no child, no task, no heartbeat; and nothing happens after it.
C12_ConflictDoesNothingElse ==
    /\ [][(pc = "consume" /\ status' = status) =>
             /\ pc' = "done"
             /\ outcome' = "SystemExit0"
             /\ UNCHANGED <<trialVars, dirExists, loopVars, childVars, taskVars,
                            hbVars, counts, now>>]_vars
    /\ [](outcome = "SystemExit0" =>
             /\ pc = "done"
             /\ loop = "none" /\ exec = "none" /\ child = "none" /\ hb = "none"
             /\ heartbeat = -1 /\ hbStamps = <<>>
             /\ store = [status |-> status, stdout |-> <<>>, stderr |-> <<>>,
                         heartbeat |-> -1])
    /\ [][outcome = "SystemExit0" => UNCHANGED vars]_vars

C12_Witness ==
    /\ outcome = "SystemExit0"
    /\ status = "running"
    /\ ~dirExists
    /\ child = "none"
    /\ loop = "none"

\* C13: execute has returned only with the two collectors and the exit-wait all
\* ended and the child exited, and what it returned is the child's exit code.
C13_ReturnsExitCodeAfterAllThree ==
    exec = "returned" =>
        /\ ThreeCompleted
        /\ child = "exited"
        /\ result # <<>>
        /\ result = returncode

C13_Witness ==
    /\ exec = "returned"
    /\ result = <<1>>
    /\ emitted["stdout"] = <<<<97>>>>
    /\ stdlist["stdout"] = <<<<97>>>>
    /\ col = [s \in Streams |-> "done"]

\* The edges of the trial's state machine.
Edges == {<<"pending", "reserved">>, <<"reserved", "running">>,
          <<"running", "completed">>, <<"running", "broken">>,
          <<"running", "suspended">>}

\* C14: every change of the trial's status, and every change of the status the
\* store shows, follows an edge of the state machine.
C14_StatusAndStoreFollowEdges ==
    [][/\ status' # status => <<status, status'>> \in Edges
       /\ store'.status # store.status => <<store.status, store'.status>> \in Edges]_vars

\* C15: when a consume call whose reservation succeeded has ended, the child
\* was spawned at most once and exactly one terminal transition was invoked,
\* once, and persisted.
C15_OneSpawnOneTerminalTransition ==
    (pc = "done" /\ ReservedHere) =>
        /\ spawns <= 1
        /\ terminals = 1
        /\ status \in Terminal
        /\ store.status = status

\* C16: whatever the capture flag, a buffer holds the stripped lines its
\* collector has read, all the lines of its stream once the collector has
\* reached its end; what was echoed of a stream is that buffer when capture is
\* off and nothing when it is on.
C16_EchoIffNotCapture ==
    \A s \in Streams :
        /\ stdlist[s] = Stripped(SubSeq(emitted[s], 1, Len(stdlist[s])))
        /\ col[s] = "done" => stdlist[s] = Stripped(emitted[s])
        /\ echoed[s] = (IF capture THEN <<>> ELSE stdlist[s])

C16_Witness ==
    /\ ~capture
    /\ col = [s \in Streams |-> "done"]
    /\ echoed = [s \in Streams |-> IF s = "stdout" THEN <<<<97>>, <<98>>>> ELSE <<>>]
    /\ stdlist = echoed

\* The guidance texts printed so far.
Printed == {printed[i] : i \in 1..Len(printed)}

\* C17: guidance is printed at most once in a call: RESERVE_BROKEN exactly on a
\* reservation conflict of a broken trial; BROKEN exactly when the supervisor
\* has returned a nonzero exit code, and before the trial is marked broken;
\* INTERRUPT exactly on an interrupt delivered while the loop runs, and before
\* the trial is marked suspended.
C17_GuidanceOnThreePaths ==
    /\ Len(printed) <= 1
    /\ "RESERVE_BROKEN" \in Printed <=> (outcome = "SystemExit0" /\ status = "broken")
    /\ "BROKEN" \in Printed <=>
          /\ SupervisorReturned
          /\ result[1] # 0
          /\ pc \notin {"check_rc", "broken"}
          /\ intAt \notin {"check_rc", "broken"}
    /\ "INTERRUPT" \in Printed <=> (intAt = "run" /\ pc # "except_interrupt")
    /\ pc \in {"mark_broken", "mark_suspended"} => status = "running"
    /\ (ReservedHere /\ status = "suspended") => "INTERRUPT" \in Printed
    /\ (ReservedHere /\ status = "broken" /\ exec # "raised") => "BROKEN" \in Printed

C17_Witness ==
    /\ pc = "mark_broken"
    /\ printed = <<"BROKEN">>
    /\ status = "running"
    /\ result = <<1>>

\* C18: while the loop of launch_process is not running, so once the
\* supervisor has returned or raised, the heartbeat task writes no heartbeat
\* and persists nothing; a terminal status that consume has persisted is never
\* overwritten.
C18_NoHeartbeatAfterSupervisor ==
    /\ [][pc # "run" =>
             /\ hbStamps' = hbStamps /\ heartbeat' = heartbeat
             /\ hbFinal' = hbFinal /\ hb' = hb
             /\ store' # store => store'.status = status']_vars
    /\ [][(ReservedHere /\ store.status \in Terminal) => store' = store]_vars

C18_Witness ==
    /\ pc = "done"
    /\ intAt = "run"
    /\ hb = "sleeping"
    /\ now >= hbWake
    /\ store.status = "suspended"

\* C19: when consume has returned after persisting completed or broken for an
\* exit code, both collectors have reached the end of their stream and the
\* persisted buffers hold every line the child wrote on each stream.
C19_TerminalRecordHoldsAllOutput ==
    (pc = "done" /\ outcome = "returned") =>
        /\ \A s \in Streams : col[s] = "done"
        /\ store.stdout = Stripped(emitted["stdout"])
        /\ store.stderr = Stripped(emitted["stderr"])

====
